---- MODULE Spec2Model ----
(***************************************************************************)
(* Model of nbgwas/network.py: the adjacency builder igraph_adj_matrix and *)
(* the two graph adapters NxNetwork and IgNetwork.                         *)
(*                                                                         *)
(* A wrapped graph is a record                                             *)
(*   n        number of nodes; the backend ids are 0 .. n-1                *)
(*   directed whether the graph is directed                                *)
(*   es       the edge list, a sequence of <<source, target>>              *)
(*   es_attr  edge attributes: attribute name -> sequence of values        *)
(*   vs_attr  node attributes: attribute name -> [node -> value]; NoneVal  *)
(*            is Python's None (igraph) or a key the node's dict lacks     *)
(*            (networkx)                                                   *)
(*   g_attr   the names of the graph-level attributes                      *)
(* Python dictionaries are functions; an ordered attr_map is a sequence of *)
(* [attr_name, d] entries; an optional argument is <<>> (None) or <<x>>.   *)
(* Node ids, display names and dictionary keys are integers, so that a     *)
(* display name can equal a backend id; dictionaries are read in ascending *)
(* key order. An adapter built with network=None, and subgraph called with *)
(* neither argument, are left out.                                         *)
(***************************************************************************)
EXTENDS Integers, Sequences, FiniteSets, TLC

VARIABLES backend, network, node_names, node_2_name, name_2_node,
          adjacency_matrix, laplacian, last

vars == <<backend, network, node_names, node_2_name, name_2_node,
          adjacency_matrix, laplacian, last>>

adapter == <<node_names, node_2_name, name_2_node>>
caches == <<adjacency_matrix, laplacian>>

-----------------------------------------------------------------------------
(* Bounds and input sets *)

MaxNodes == 2
MaxEdges == 2
MaxGraphEdges == 1

NoneVal == -1
NoKey == "None"
node_name == "name"

Weights == {1, 2}
GraphWeights == {2}
WeightKeys == {NoKey, "", "weight", "cost"}
Refs == 0..MaxNodes
NameVals == Refs \cup {NoneVal}
AttrValues == {1, 2}
AttrNames == {"score", "rank"}
Namespaces == {"nodenames", "nodeids", "names"}

Nodes(G) == 0..(G.n - 1)

-----------------------------------------------------------------------------
(* igraph_adj_matrix *)

RECURSIVE CooEntry(_, _, _, _, _)
CooEntry(es, vals, i, j, k) ==
    IF k = 0 THEN 0
    ELSE CooEntry(es, vals, i, j, k - 1)
         + (IF es[k] = <<i, j>> THEN vals[k] ELSE 0)

coo_matrix(vals, es, n) ==
    [i \in 0..(n - 1) |-> [j \in 0..(n - 1) |-> CooEntry(es, vals, i, j, Len(es))]]

Transpose(A, n) == [i \in 0..(n - 1) |-> [j \in 0..(n - 1) |-> A[j][i]]]

MatAdd(A, B, n) == [i \in 0..(n - 1) |-> [j \in 0..(n - 1) |-> A[i][j] + B[i][j]]]

Truthy(weighted) == weighted # NoKey /\ weighted # ""

AdjVals(G, weighted) ==
    IF Truthy(weighted) THEN G.es_attr[weighted]
    ELSE [k \in 1..Len(G.es) |-> 1]

\* the builder without the transpose step
SymmetrizeNever(adj, G) == adj

Symmetrize(adj, G) ==
    IF ~G.directed THEN MatAdd(adj, Transpose(adj, G.n), G.n) ELSE adj

igraph_adj_matrix(G, weighted) ==
    IF Truthy(weighted) /\ weighted \notin DOMAIN G.es_attr
    THEN [err |-> "ValueError", val |-> <<>>]
    ELSE [err |-> "ok",
          val |-> <<Symmetrize(coo_matrix(AdjVals(G, weighted), G.es, G.n), G)>>]

RECURSIVE RowSum(_, _, _)
RowSum(A, i, k) == IF k = 0 THEN 0 ELSE RowSum(A, i, k - 1) + A[i][k - 1]

DegreeMinus(A, n) ==
    [i \in 0..(n - 1) |->
        [j \in 0..(n - 1) |-> (IF i = j THEN RowSum(A, i, n) ELSE 0) - A[i][j]]]

-----------------------------------------------------------------------------
(* Backend behaviour used by NxNetwork: networkx's adjacency and Laplacian  *)
(* export on an undirected simple graph, a missing edge attribute counting  *)
(* as weight 1 and a self-loop counting once. Both refuse a graph without   *)
(* nodes.                                                                   *)

NxVals(G, weights) ==
    IF weights \in DOMAIN G.es_attr THEN G.es_attr[weights]
    ELSE [k \in 1..Len(G.es) |-> 1]

nx_adjacency_matrix(G, weights) ==
    LET c == coo_matrix(NxVals(G, weights), G.es, G.n)
    IN  IF G.n = 0 THEN [err |-> "NetworkXError", val |-> <<>>]
        ELSE [err |-> "ok",
              val |-> <<[i \in Nodes(G) |-> [j \in Nodes(G) |->
                            IF i = j THEN c[i][i] ELSE c[i][j] + c[j][i]]]>>]

nx_laplacian_matrix(G, weights) ==
    LET r == nx_adjacency_matrix(G, weights)
    IN  IF r.err # "ok" THEN r
        ELSE [err |-> "ok", val |-> <<DegreeMinus(r.val[1], G.n)>>]

-----------------------------------------------------------------------------
(* Backend subgraph extraction: the induced subgraph on a set of ids, as    *)
(* its vertex set (in the ids of the wrapped graph) and its edges.          *)

Induced(G, S) ==
    [vs |-> S, es |-> SelectSeq(G.es, LAMBDA e : e[1] \in S /\ e[2] \in S)]

\* networkx ignores ids that are not nodes; igraph rejects them.
backend_subgraph(b, G, ids) ==
    IF b = "nx" THEN [err |-> "ok", val |-> <<Induced(G, ids \cap Nodes(G))>>]
    ELSE IF ids \subseteq Nodes(G) THEN [err |-> "ok", val |-> <<Induced(G, ids)>>]
    ELSE [err |-> "BackendError", val |-> <<>>]

-----------------------------------------------------------------------------
(* Constructors *)

MaxOf(S) == CHOOSE m \in S : \A x \in S : x <= m

NxNodeNames(G) ==
    [i \in 1..G.n |->
        IF node_name \in DOMAIN G.vs_attr /\ G.vs_attr[node_name][i - 1] # NoneVal
        THEN G.vs_attr[node_name][i - 1]
        ELSE i - 1]

IgNodeNames(G) ==
    IF node_name \in DOMAIN G.vs_attr
    THEN [i \in 1..G.n |-> G.vs_attr[node_name][i - 1]]
    ELSE [i \in 1..G.n |-> i - 1]

NodeNames(b, G) == IF b = "nx" THEN NxNodeNames(G) ELSE IgNodeNames(G)

\* dict(zip(nodes, node_names))
ZipNode2Name(names) == [n \in 0..(Len(names) - 1) |-> names[n + 1]]

\* name -> position counted from 1 instead of the node id
ZipName2NodeOneBased(names) ==
    [s \in {names[i] : i \in 1..Len(names)} |->
        CHOOSE i \in 1..Len(names) : names[i] = s /\ \A k \in 1..Len(names) : names[k] = s => k <= i]

\* dict(zip(node_names, nodes)): a later node overwrites an earlier one
ZipName2Node(names) ==
    [s \in {names[i] : i \in 1..Len(names)} |->
        MaxOf({i - 1 : i \in {k \in 1..Len(names) : names[k] = s}})]

Start == [op |-> "__init__", outcome |-> "ok", args |-> <<>>, ret |-> <<>>]

Construct(b, G) ==
    /\ backend = b
    /\ network = G
    /\ node_names = NodeNames(b, G)
    /\ node_2_name = ZipNode2Name(NodeNames(b, G))
    /\ name_2_node = ZipName2Node(NodeNames(b, G))
    /\ adjacency_matrix = <<>>
    /\ laplacian = <<>>
    /\ last = Start

-----------------------------------------------------------------------------
(* Matrix builders of the adapters *)

Call(op, outcome, args, ret) ==
    [op |-> op, outcome |-> outcome, args |-> args, ret |-> ret]

NxAddAdjacencyMatrix(weights) ==
    LET r == nx_adjacency_matrix(network, weights)
    IN  /\ backend = "nx"
        /\ adjacency_matrix' = IF r.err = "ok" THEN r.val ELSE adjacency_matrix
        /\ last' = Call("add_adjacency_matrix", r.err, <<weights>>, <<>>)
        /\ UNCHANGED <<backend, network, adapter, laplacian>>

NxAddLaplacianMatrix(weights) ==
    LET r == nx_laplacian_matrix(network, weights)
    IN  /\ backend = "nx"
        /\ laplacian' = IF r.err = "ok" THEN r.val ELSE laplacian
        /\ last' = Call("add_laplacian_matrix", r.err, <<weights>>, <<>>)
        /\ UNCHANGED <<backend, network, adapter, adjacency_matrix>>

IgAddAdjacencyMatrix(weights) ==
    LET r == igraph_adj_matrix(network, weights)
    IN  /\ backend = "ig"
        /\ adjacency_matrix' = IF r.err = "ok" THEN r.val ELSE adjacency_matrix
        /\ last' = Call("add_adjacency_matrix", r.err, <<weights>>, <<>>)
        /\ UNCHANGED <<backend, network, adapter, laplacian>>

\* The adjacency matrix add_laplacian_matrix works from: the cached one when
\* there is one, else the one add_adjacency_matrix(weights) builds.
IgLaplacianSource(cached, G, weights) ==
    IF cached # <<>> THEN [err |-> "ok", val |-> cached]
    ELSE igraph_adj_matrix(G, weights)

\* add_laplacian_matrix building its adjacency matrix without caching it
IgAddLaplacianMatrixUncached(weights) ==
    LET r == IgLaplacianSource(adjacency_matrix, network, weights)
    IN  /\ backend = "ig"
        /\ laplacian' = IF r.err = "ok"
                        THEN <<DegreeMinus(r.val[1], network.n)>>
                        ELSE laplacian
        /\ last' = Call("add_laplacian_matrix", r.err, <<weights>>, <<>>)
        /\ UNCHANGED <<backend, network, adapter, adjacency_matrix>>

IgAddLaplacianMatrix(weights) ==
    LET r == IgLaplacianSource(adjacency_matrix, network, weights)
    IN  /\ backend = "ig"
        /\ adjacency_matrix' = IF r.err = "ok" THEN r.val ELSE adjacency_matrix
        /\ laplacian' = IF r.err = "ok"
                        THEN <<DegreeMinus(r.val[1], network.n)>>
                        ELSE laplacian
        /\ last' = Call("add_laplacian_matrix", r.err, <<weights>>, <<>>)
        /\ UNCHANGED <<backend, network, adapter>>

-----------------------------------------------------------------------------
(* subgraph: the same code in both adapters *)

\* the both-given test written on truthiness: empty collections pass it
subgraph_truthy(b, G, n2n, node_ids, node_names_arg) ==
    IF /\ node_names_arg # <<>> /\ node_ids # <<>>
       /\ node_names_arg[1] # {} /\ node_ids[1] # {}
    THEN [err |-> "ValueError", val |-> <<>>]
    ELSE IF node_names_arg # <<>>
    THEN IF \E n \in node_names_arg[1] : n \notin DOMAIN n2n
         THEN [err |-> "KeyError", val |-> <<>>]
         ELSE backend_subgraph(b, G, {n2n[n] : n \in node_names_arg[1]})
    ELSE backend_subgraph(b, G, node_ids[1])

subgraph(b, G, n2n, node_ids, node_names_arg) ==
    IF node_names_arg # <<>> /\ node_ids # <<>>
    THEN [err |-> "ValueError", val |-> <<>>]
    ELSE IF node_names_arg # <<>>
    THEN IF \E n \in node_names_arg[1] : n \notin DOMAIN n2n
         THEN [err |-> "KeyError", val |-> <<>>]
         ELSE backend_subgraph(b, G, {n2n[n] : n \in node_names_arg[1]})
    ELSE backend_subgraph(b, G, node_ids[1])

Subgraph(b, node_ids, node_names_arg) ==
    LET r == subgraph(backend, network, node_2_name, node_ids, node_names_arg)
    IN  /\ backend = b
        /\ last' = Call("subgraph", r.err, <<node_ids, node_names_arg>>, r.val)
        /\ UNCHANGED <<backend, network, adapter, caches>>

NxSubgraph(node_ids, node_names_arg) == Subgraph("nx", node_ids, node_names_arg)

IgSubgraph(node_ids, node_names_arg) == Subgraph("ig", node_ids, node_names_arg)

-----------------------------------------------------------------------------
(* Node attributes *)

OldAttr(G, a, n) == IF a \in DOMAIN G.vs_attr THEN G.vs_attr[a][n] ELSE NoneVal

SetVsAttr(G, a, f) ==
    [G EXCEPT !.vs_attr =
        [x \in DOMAIN G.vs_attr \cup {a} |-> IF x = a THEN f ELSE G.vs_attr[x]]]

\* NxNetwork.get_node_attributes: the backend's node -> attribute dict mapping
NxNodeDict(G) ==
    [n \in Nodes(G) |->
        [a \in {x \in DOMAIN G.vs_attr : G.vs_attr[x][n] # NoneVal} |-> G.vs_attr[a][n]]]

NxGetNodeAttributes ==
    /\ backend = "nx"
    /\ last' = Call("get_node_attributes", "ok", <<>>, <<NxNodeDict(network)>>)
    /\ UNCHANGED <<backend, network, adapter, caches>>

\* IgNetwork.get_node_attributes: one entry per graph-level attribute, each
\* built from G.vs, where G is a name the method never binds.
ig_get_node_attributes(G) ==
    IF G.g_attr = {} THEN [err |-> "ok", val |-> << <<>> >>]
    ELSE [err |-> "NameError", val |-> <<>>]

IgGetNodeAttributes ==
    LET r == ig_get_node_attributes(network)
    IN  /\ backend = "ig"
        /\ last' = Call("get_node_attributes", r.err, <<>>, r.val)
        /\ UNCHANGED <<backend, network, adapter, caches>>

\* The dict NxNetwork.set_node_attributes hands to networkx for one attribute.
NxTranslate(d, n2n, namespace) ==
    IF namespace = "nodenames"
    THEN LET ks == DOMAIN d \cap DOMAIN n2n
         IN  [n \in {n2n[k] : k \in ks} |-> d[CHOOSE k \in ks : n2n[k] = n]]
    ELSE d

\* networkx's set_node_attributes(G, name, values): G.node[k][name] = v for each
\* item in turn (keys in ascending order), KeyError at the first k that is no node.
nx_set_node_attributes(G, name, values) ==
    LET bad == DOMAIN values \ Nodes(G)
        written == IF bad = {} THEN DOMAIN values
                   ELSE {k \in DOMAIN values : \A x \in bad : k < x}
        f == [n \in Nodes(G) |->
                 IF n \in written THEN values[n] ELSE OldAttr(G, name, n)]
    IN  [err |-> IF bad = {} THEN "ok" ELSE "KeyError",
         G |-> IF written = {} THEN G ELSE SetVsAttr(G, name, f)]

RECURSIVE NxSetAttrs(_, _, _, _, _)
NxSetAttrs(G, n2n, attr_map, namespace, k) ==
    IF k > Len(attr_map) THEN [err |-> "ok", G |-> G]
    ELSE LET r == nx_set_node_attributes(
                      G, attr_map[k].attr_name,
                      NxTranslate(attr_map[k].d, n2n, namespace))
         IN  IF r.err # "ok" THEN r
             ELSE NxSetAttrs(r.G, n2n, attr_map, namespace, k + 1)

NxSetNodeAttributes(attr_map, namespace) ==
    LET r == NxSetAttrs(network, name_2_node, attr_map, namespace, 1)
    IN  /\ backend = "nx"
        /\ network' = r.G
        /\ last' = Call("set_node_attributes", r.err, <<namespace>>, <<>>)
        /\ UNCHANGED <<backend, adapter, caches>>

\* The list IgNetwork.set_node_attributes builds for one attribute.
IgAttrList(G, d, namespace) ==
    IF G.n = 0 THEN [err |-> "ok", val |-> <<>>]
    ELSE IF namespace = "nodenames"
    THEN IF \/ node_name \notin DOMAIN G.vs_attr
            \/ \E v \in Nodes(G) : G.vs_attr[node_name][v] \notin DOMAIN d
         THEN [err |-> "KeyError", val |-> <<>>]
         ELSE [err |-> "ok", val |-> [v \in Nodes(G) |-> d[G.vs_attr[node_name][v]]]]
    ELSE IF namespace = "nodeids"
    THEN IF \E v \in Nodes(G) : v \notin DOMAIN d
         THEN [err |-> "KeyError", val |-> <<>>]
         ELSE [err |-> "ok", val |-> [v \in Nodes(G) |-> d[v]]]
    ELSE [err |-> "ValueError", val |-> <<>>]

RECURSIVE IgSetAttrs(_, _, _, _)
IgSetAttrs(G, attr_map, namespace, k) ==
    IF k > Len(attr_map) THEN [err |-> "ok", G |-> G]
    ELSE LET r == IgAttrList(G, attr_map[k].d, namespace)
         IN  IF r.err # "ok" THEN [err |-> r.err, G |-> G]
             ELSE IgSetAttrs(SetVsAttr(G, attr_map[k].attr_name, r.val),
                             attr_map, namespace, k + 1)

IgSetNodeAttributes(attr_map, namespace) ==
    LET r == IgSetAttrs(network, attr_map, namespace, 1)
    IN  /\ backend = "ig"
        /\ network' = r.G
        /\ last' = Call("set_node_attributes", r.err, <<namespace>>, <<>>)
        /\ UNCHANGED <<backend, adapter, caches>>

\* The adjacency builder called on its own.
AdjacencyBuilder(weighted) ==
    LET r == igraph_adj_matrix(network, weighted)
    IN  /\ backend = "ig"
        /\ last' = Call("igraph_adj_matrix", r.err, <<weighted>>, r.val)
        /\ UNCHANGED <<backend, network, adapter, caches>>

-----------------------------------------------------------------------------
(* Graphs the adapters are built over *)

Graph(n, dir, es, ea, va, ga) ==
    [n |-> n, directed |-> dir, es |-> es, es_attr |-> ea, vs_attr |-> va,
     g_attr |-> ga]

AllPairs(n) == (0..(n - 1)) \X (0..(n - 1))
SortedPairs(n) == {p \in AllPairs(n) : p[1] <= p[2]}

EdgeLists(P, maxlen) == UNION {[1..k -> P] : k \in 0..maxlen}

\* the edges either carry no attribute or all carry "weight", with a value in W
EdgeAttrs(k, W) == {<<>>} \cup {[a \in {"weight"} |-> w] : w \in [1..k -> W]}

Simple(es) == \A i, j \in 1..Len(es) : i # j => es[i] # es[j]

\* the "name" node attribute: absent, or one value per node
NameAttrs(n) == {<<>>} \cup {[a \in {node_name} |-> f] : f \in [0..(n - 1) -> NameVals]}

-----------------------------------------------------------------------------
(* Arguments the calls are made with *)

Opt(S) == {<<>>} \cup {<<x>> : x \in S}
Given(S) == {<<x>> : x \in S}

\* node selections: any set of references, or the three typical ones
AnyArgs == SUBSET Refs
FewArgs == {{}, {0}, {MaxNodes}}

Dicts == UNION {[S -> AttrValues] : S \in SUBSET Refs}
UnitDicts == {[k \in S |-> 1] : S \in SUBSET Refs}
Entries(A, D) == {[attr_name |-> a, d |-> d] : a \in A, d \in D}

\* attribute maps: empty, one attribute, or two attributes in turn
AttrMaps ==
    {<<>>}
    \cup {<<e>> : e \in Entries({"score"}, Dicts)}
    \cup {<<e1, e2>> : e1 \in Entries({"score"}, UnitDicts),
                       e2 \in Entries({"rank"}, UnitDicts)}

\* the empty map, and one attribute given to every reference
FewAttrMaps == {<<>>, <<[attr_name |-> "score", d |-> [k \in Refs |-> 1]]>>}

-----------------------------------------------------------------------------
(* Spec: both adapters over unnamed undirected graphs, every operation.     *)

Init ==
    \E n \in 0..MaxNodes, b \in {"nx", "ig"} :
        \E es \in EdgeLists(SortedPairs(n), MaxGraphEdges) :
            \E ea \in EdgeAttrs(Len(es), GraphWeights) :
                /\ b = "nx" => Simple(es)
                /\ Construct(b, Graph(n, FALSE, es, ea, <<>>, {}))

Next ==
    \/ \E w \in WeightKeys : NxAddAdjacencyMatrix(w)
    \/ \E w \in WeightKeys : NxAddLaplacianMatrix(w)
    \/ \E w \in WeightKeys : IgAddAdjacencyMatrix(w)
    \/ \E w \in WeightKeys : IgAddLaplacianMatrix(w)
    \/ \E w \in WeightKeys : AdjacencyBuilder(w)
    \/ \E X \in Opt(FewArgs), Y \in Opt(FewArgs) :
          (X # <<>> \/ Y # <<>>) /\ NxSubgraph(X, Y)
    \/ \E X \in Opt(FewArgs), Y \in Opt(FewArgs) :
          (X # <<>> \/ Y # <<>>) /\ IgSubgraph(X, Y)
    \/ NxGetNodeAttributes
    \/ IgGetNodeAttributes
    \/ \E m \in FewAttrMaps, ns \in Namespaces : NxSetNodeAttributes(m, ns)
    \/ \E m \in FewAttrMaps, ns \in Namespaces : IgSetNodeAttributes(m, ns)

Spec == Init /\ [][Next]_vars

-----------------------------------------------------------------------------
(* SpecAdj: the adjacency builder on its own, over directed and undirected  *)
(* multigraphs with edges in either orientation.                            *)

InitAdj ==
    \E n \in 0..MaxNodes, dir \in BOOLEAN :
        \E es \in EdgeLists(AllPairs(n), MaxEdges) :
            \E ea \in EdgeAttrs(Len(es), Weights) :
                Construct("ig", Graph(n, dir, es, ea, <<>>, {}))

NextAdj == \E w \in WeightKeys : AdjacencyBuilder(w)

SpecAdj == InitAdj /\ [][NextAdj]_vars

-----------------------------------------------------------------------------
(* SpecNames, SpecSubgraph: both adapters over graphs with display names,   *)
(* without edges (SpecNames) or with edges (SpecSubgraph); subgraph calls.  *)

InitNamed(maxlen) ==
    \E n \in 0..MaxNodes, b \in {"nx", "ig"} :
        \E va \in NameAttrs(n), es \in EdgeLists(SortedPairs(n), maxlen) :
            /\ b = "nx" => Simple(es)
            /\ Construct(b, Graph(n, FALSE, es, <<>>, va, {}))

NextSubgraph ==
    \/ \E X \in Given(AnyArgs) : NxSubgraph(X, <<>>)
    \/ \E Y \in Given(AnyArgs) : NxSubgraph(<<>>, Y)
    \/ \E X \in Given(FewArgs), Y \in Given(FewArgs) : NxSubgraph(X, Y)
    \/ \E X \in Given(AnyArgs) : IgSubgraph(X, <<>>)
    \/ \E Y \in Given(AnyArgs) : IgSubgraph(<<>>, Y)
    \/ \E X \in Given(FewArgs), Y \in Given(FewArgs) : IgSubgraph(X, Y)

InitNames == InitNamed(0)
SpecNames == InitNames /\ [][NextSubgraph]_vars

InitSubgraph == InitNamed(MaxGraphEdges)
SpecSubgraph == InitSubgraph /\ [][NextSubgraph]_vars

-----------------------------------------------------------------------------
(* SpecAttrs: both adapters over graphs with display names; attribute calls. *)

InitAttrs ==
    \E n \in 0..MaxNodes, b \in {"nx", "ig"} :
        \E va \in NameAttrs(n), ga \in {{}, {"title"}} :
            /\ b = "nx" => ga = {}
            /\ Construct(b, Graph(n, FALSE, <<>>, <<>>, va, ga))

NextAttrs ==
    \/ NxGetNodeAttributes
    \/ IgGetNodeAttributes
    \/ \E m \in AttrMaps, ns \in Namespaces : NxSetNodeAttributes(m, ns)
    \/ \E m \in AttrMaps, ns \in Namespaces : IgSetNodeAttributes(m, ns)

SpecAttrs == InitAttrs /\ [][NextAttrs]_vars

-----------------------------------------------------------------------------
(* Claims *)

Recognized == {"nodenames", "nodeids"}
Builders == {"add_adjacency_matrix", "add_laplacian_matrix"}

\* the edges joining i and j, in either orientation
Joining(G, i, j) == {k \in 1..Len(G.es) : G.es[k] = <<i, j>> \/ G.es[k] = <<j, i>>}

\* the weight edge k counts with under a weight key
EdgeWeight(G, key, k) == IF key = NoKey THEN 1 ELSE G.es_attr[key][k]

IsSquare(A, n) ==
    /\ DOMAIN A = 0..(n - 1)
    /\ \A i \in 0..(n - 1) : DOMAIN A[i] = 0..(n - 1)

BuiltUndirected ==
    /\ last.op = "igraph_adj_matrix"
    /\ last.outcome = "ok"
    /\ ~network.directed
    /\ last.args[1] = NoKey \/ last.args[1] \in DOMAIN network.es_attr

\* C7: on an undirected graph the adjacency builder returns an N x N symmetric
\* matrix; a pair i # j joined by exactly one edge of weight w has
\* A[i][j] = A[j][i] = w (so the two sum to 2w), a pair joined by no edge has 0,
\* a node with exactly one self-loop of weight w has A[i][i] = 2w; without a
\* weight key every edge counts 1.
C7_AdjacencySymmetric ==
    BuiltUndirected =>
        LET A == last.ret[1]
            G == network
            key == last.args[1]
        IN  /\ IsSquare(A, G.n)
            /\ \A i, j \in Nodes(G) : A[i][j] = A[j][i]
            /\ \A i, j \in Nodes(G) :
                  /\ Joining(G, i, j) = {} => A[i][j] = 0
                  /\ \A k \in Joining(G, i, j) :
                        Joining(G, i, j) = {k} =>
                            IF i = j THEN A[i][i] = 2 * EdgeWeight(G, key, k)
                            ELSE /\ A[i][j] = EdgeWeight(G, key, k)
                                 /\ A[i][j] + A[j][i] = 2 * EdgeWeight(G, key, k)

\* a weighted build over an edge stored against the node order and a self-loop
C7_Witness ==
    /\ BuiltUndirected
    /\ last.args[1] = "weight"
    /\ network.n = 2
    /\ network.es = << <<1, 0>>, <<1, 1>> >>
    /\ network.es_attr["weight"] = <<2, 1>>
    /\ last.ret[1][0][1] = 2
    /\ last.ret[1][1][1] = 2

BothGiven == last.op = "subgraph" /\ last.args[1] # <<>> /\ last.args[2] # <<>>

\* C9: subgraph called with both node_ids and node_names non-null fails with
\* ValueError, returns nothing and leaves the graph, the mappings and the
\* caches as they were, whatever the two collections hold.
C9_BothGivenFails ==
    /\ [](BothGiven => last.outcome = "ValueError" /\ last.ret = <<>>)
    /\ [][BothGiven' => UNCHANGED <<backend, network, adapter, caches>>]_vars

\* both collections empty, on an adapter whose caches are set
C9_Witness ==
    /\ BothGiven
    /\ last.args = << <<{}>>, <<{}>> >>
    /\ last.outcome = "ValueError"
    /\ adjacency_matrix # <<>>
    /\ laplacian # <<>>

\* C10: on IgNetwork both caches are absent after construction, a cache once
\* set stays set, a cached Laplacian implies a cached adjacency matrix, only
\* the two builder methods change a cache, and a successful builder call
\* leaves the cache it builds holding what it built.
C10_CachesMonotonic ==
    /\ [](backend = "ig" =>
            /\ last.op = "__init__" => adjacency_matrix = <<>> /\ laplacian = <<>>
            /\ laplacian # <<>> => adjacency_matrix # <<>>
            /\ last.op = "add_adjacency_matrix" /\ last.outcome = "ok" =>
                  adjacency_matrix = igraph_adj_matrix(network, last.args[1]).val
            /\ last.op = "add_laplacian_matrix" /\ last.outcome = "ok" =>
                  /\ adjacency_matrix # <<>>
                  /\ laplacian = <<DegreeMinus(adjacency_matrix[1], network.n)>>)
    /\ [][backend = "ig" =>
            /\ adjacency_matrix # <<>> => adjacency_matrix' # <<>>
            /\ laplacian # <<>> => laplacian' # <<>>
            /\ caches' # caches => last'.op \in Builders /\ last'.outcome = "ok"]_vars

\* add_laplacian_matrix("weight") has built both caches of a weighted graph
C10_Witness ==
    /\ backend = "ig"
    /\ last.op = "add_laplacian_matrix"
    /\ last.args = <<"weight">>
    /\ last.outcome = "ok"
    /\ Len(network.es) > 0
    /\ adjacency_matrix = igraph_adj_matrix(network, "weight").val
    /\ laplacian = <<DegreeMinus(adjacency_matrix[1], network.n)>>

UniqueNames == \A i, j \in 1..Len(node_names) : node_names[i] = node_names[j] => i = j

NameOfIdRoundTrip ==
    \A n \in Nodes(network) :
        node_2_name[n] \in DOMAIN name_2_node /\ name_2_node[node_2_name[n]] = n
IdOfNameRoundTrip ==
    \A s \in DOMAIN name_2_node :
        name_2_node[s] \in DOMAIN node_2_name /\ node_2_name[name_2_node[s]] = s

\* C5 as claimed: the two mappings are mutual inverses for every graph,
\* graphs with a shared display name included.
C5_MutualInverses ==
    /\ DOMAIN node_2_name = Nodes(network)
    /\ NameOfIdRoundTrip
    /\ IdOfNameRoundTrip

\* C5 amended: id_to_name[name_to_id[s]] = s holds for every graph, and
\* name_to_id[id_to_name[n]] = n holds when the display names are pairwise
\* distinct.
C5_InverseWhenUnique ==
    /\ DOMAIN node_2_name = Nodes(network)
    /\ IdOfNameRoundTrip
    /\ UniqueNames => NameOfIdRoundTrip

\* distinct names, each the backend id of the other node
C5_Witness ==
    /\ network.n = 2
    /\ node_names = <<1, 0>>
    /\ UniqueNames
    /\ name_2_node[1] = 0
    /\ node_2_name[0] = 1

\* C1: over unique display names, subgraph(node_names=Y) with Y the display
\* names of the nodes X succeeds and returns what subgraph(node_ids=X) returns.
C1_SameSubgraph ==
    (/\ last.op = "subgraph"
     /\ last.args[1] = <<>>
     /\ UniqueNames
     /\ last.args[2][1] \subseteq {node_names[i] : i \in 1..Len(node_names)})
    => LET Y == last.args[2][1]
           X == {n \in Nodes(network) : node_names[n + 1] \in Y}
           byIds == subgraph(backend, network, node_2_name, <<X>>, <<>>)
       IN  /\ last.outcome = "ok"
           /\ byIds.err = "ok"
           /\ last.ret = byIds.val

\* C2: set_node_attributes with an unrecognized namespace fails with
\* ValueError for every attr_map and every graph, and changes no node attribute.
C2_UnknownNamespaceFails ==
    /\ [](last.op = "set_node_attributes" /\ last.args[1] \notin Recognized
            => last.outcome = "ValueError")
    /\ [][last'.op = "set_node_attributes" /\ last'.args[1] \notin Recognized
            => network' = network]_vars

\* C3: a call that fails leaves the cached matrices and the wrapped graph's
\* node attributes as they were before the call.
C3_NoPartialFailure ==
    [][last'.outcome # "ok" => network' = network /\ caches' = caches]_vars

\* C4: a successful IgNetwork.add_laplacian_matrix(w) leaves the cached
\* Laplacian equal to diag(row sums of A) - A for A = igraph_adj_matrix(graph, w).
C4_LaplacianOfKey ==
    (/\ backend = "ig"
     /\ last.op = "add_laplacian_matrix"
     /\ last.outcome = "ok"
     /\ igraph_adj_matrix(network, last.args[1]).err = "ok")
    => laplacian =
          <<DegreeMinus(igraph_adj_matrix(network, last.args[1]).val[1], network.n)>>

GetResult(b, G) ==
    IF b = "nx" THEN [err |-> "ok", val |-> <<NxNodeDict(G)>>]
    ELSE ig_get_node_attributes(G)

AllResolve(m, ns) ==
    \A i \in 1..Len(m) : \A k \in DOMAIN m[i].d :
        IF ns = "nodenames" THEN k \in DOMAIN name_2_node ELSE k \in Nodes(network)

IdOf(k, ns) == IF ns = "nodenames" THEN name_2_node[k] ELSE k

SetStep(m, ns) == NxSetNodeAttributes(m, ns) \/ IgSetNodeAttributes(m, ns)

\* what get_node_attributes returns on G holds the values of attribute map m
Reproduces(b, G, m, ns) ==
    LET r == GetResult(b, G)
    IN  /\ r.err = "ok"
        /\ \A i \in 1..Len(m) : \A k \in DOMAIN m[i].d :
              /\ IdOf(k, ns) \in DOMAIN r.val[1]
              /\ m[i].attr_name \in DOMAIN r.val[1][IdOf(k, ns)]
              /\ r.val[1][IdOf(k, ns)][m[i].attr_name] = m[i].d[k]

\* C6: for every attribute map whose node references all resolve,
\* set_node_attributes succeeds and get_node_attributes then succeeds and
\* returns, keyed by backend id, the value the map gave each referenced node.
C6_RoundTrip ==
    [][\A ns \in Recognized :
          last'.op = "set_node_attributes" /\ last'.args = <<ns>> =>
              \A m \in AttrMaps :
                  AllResolve(m, ns) /\ SetStep(m, ns) =>
                      /\ last'.outcome = "ok"
                      /\ Reproduces(backend, network', m, ns)]_vars

BadKeyCall ==
    /\ backend = "ig"
    /\ last.op \in Builders \cup {"igraph_adj_matrix"}
    /\ last.args[1] # NoKey
    /\ last.args[1] \notin DOMAIN network.es_attr

\* C8: on IgNetwork a supplied weight key that is no edge attribute makes the
\* builder, add_adjacency_matrix and add_laplacian_matrix fail with ValueError
\* and leaves both caches unchanged, in every adapter state and for every key.
C8_BadKeyFails ==
    /\ [](BadKeyCall => last.outcome = "ValueError")
    /\ [][BadKeyCall' => caches' = caches]_vars

====
